---------------------------- MODULE Spec2Model ----------------------------
(***************************************************************************)
(* A model of the YoutubeTranscriptDownloader scripts:                     *)
(*   AiReformatter.py               the reformatting engine, its provider  *)
(*                                  registry and its menus                 *)
(*   YoutubeTranscriptDownloader.py transcript fetch, channel listing,     *)
(*                                  duplicate detection, filename rules    *)
(* Text is modelled as a sequence of one-character strings, so that the    *)
(* regular expressions and the string operations act on characters.        *)
(* Each subsystem has its own variables and its own specification; a       *)
(* specification leaves the variables of the other subsystems untouched.   *)
(***************************************************************************)
EXTENDS Integers, Sequences, FiniteSets, TLC

VARIABLES
    \* filename sanitization (both scripts)
    sanName,      \* the name handed to the sanitizer
    sanMax,       \* TRANSCRIPT_FILENAME_LENGTH as configured
    sanWhich,     \* which sanitizer ran: "none", "ai", "dl"
    sanOnce,      \* result of one application
    sanTwice,     \* result of applying it to its own result
    sanStage,     \* "input", "once", "twice"
    \* duration normalization
    durIn,        \* the ISO-8601 duration string handed to format_duration
    durOut,       \* the string it returned
    durStage,     \* "input", "done"
    \* duplicate detection
    dupFiles,     \* the files under the search root, in os.walk order
    dupIdx,       \* how many of them the loop has visited
    dupHashes,    \* hashes: file hash -> path of its first occurrence
    dupList,      \* duplicates: (duplicate path, original path) pairs
    dupReport,    \* the pairs written to duplicates.txt (<<>>: not written)
    dupPc,        \* "walk", "done"
    \* channel video enumeration
    chUrl,        \* shape of the channel URL: "handle", "channel", "other"
    chSource,     \* the pages the listing API holds for the channel
    chPc,         \* "resolve", "open", "list", "write", "done"
    chToken,      \* next_page_token: the page to request next (0: None)
    chRequests,   \* page requests issued so far
    chVideos,     \* videos: the rows collected so far
    chDir,        \* whether transcripts/<channel> has been created
    chCsv,        \* the channel's CSV index
    chFailed,     \* whether the run ended in its error branch
    \* single-video fetch
    trFiles,      \* the files under transcripts/: <<directory, file>> -> content
    fsvCalls,     \* fetch_single_video calls made so far
    fsvTranscript,\* last call: "none", "invalid_url", "ok", "disabled",
                  \*            "not_found", "error"
    fsvMeta,      \* last call: how the metadata request went ("not_called",
                  \*            "ok", "no_items", "bad_item", "error")
    fsvRecord,    \* last call: what fetch_video_metadata returned
    fsvMetaRaised,\* last call: whether fetch_video_metadata raised
    fsvWritten,   \* last call: the path it wrote (<<>>: none)
    \* provider registry and the engine's active provider
    store,        \* API_KEY.json "ai-providers": name -> profile
    running,      \* whether an AiReformatter has been constructed
    provider,     \* self._provider (NoProvider: None)
    client,       \* self._client (NoClient: None)
    setRaised,    \* whether the last set_provider call raised
    setName,      \* the name given to the last set_provider call
    setReturned,  \* what the last set_provider call returned
    engLoaded,    \* the name given to the last set_provider that returned
    engFresh,     \* no write of the store since that set_provider
    menuChoice,   \* select_ai_provider: the last input at the provider prompt
    selLast,      \* the provider last set as default ("none": none yet)
    \* reformatting engine
    procDirs,     \* the directories created at or under processed/
    procFiles,    \* the files under processed/: path -> content
    rfCalls,      \* direct reformat_transcript calls made so far
    rfLast,       \* the last reformat_transcript call: its input, the
                  \* response, what it returned and what it did
    rfTally,      \* over the direct calls: how many returned a result, and
                  \* how many files they wrote
    batItems,     \* the batch: for each directory entry, whether it ends
                  \* in ".json"
    batIdx,       \* entries the batch loop has passed
    batPc,        \* "idle", "run", "done", "aborted", "crashed"
    batTried,     \* entries process_file was called on
    batWrote,     \* the files the entries of the batch wrote
    \* single-file browser of the reformat menu
    brNames,      \* the subdirectory names a directory of the tree holds
    brDepth,      \* directories this deep below the start hold none
    brFiles,      \* the file names every directory of the tree holds
    brDir,        \* current_dir
    brPc,         \* "menu", "browse", "exited", "crashed"
    brLast        \* what the last pass of the browser loop did

sanVars == <<sanName, sanMax, sanWhich, sanOnce, sanTwice, sanStage>>
durVars == <<durIn, durOut, durStage>>
dupVars == <<dupFiles, dupIdx, dupHashes, dupList, dupReport, dupPc>>
chVars == <<chUrl, chSource, chPc, chToken, chRequests, chVideos, chDir,
           chCsv, chFailed>>
fsvVars == <<trFiles, fsvCalls, fsvTranscript, fsvMeta, fsvRecord,
            fsvMetaRaised, fsvWritten>>
provVars == <<store, running, provider, client, setRaised, setName,
             setReturned, engLoaded, engFresh, menuChoice, selLast>>
rfVars == <<procDirs, procFiles, rfCalls, rfLast, rfTally, batItems, batIdx,
           batPc, batTried, batWrote>>

brVars == <<brNames, brDepth, brFiles, brDir, brPc, brLast>>

vars == <<sanVars, durVars, dupVars, chVars, fsvVars,
          provVars, rfVars, brVars>>

\* what the actions of one subsystem leave alone
sanOthers == <<durVars, dupVars, chVars, fsvVars, provVars, rfVars, brVars>>
durOthers == <<sanVars, dupVars, chVars, fsvVars, provVars, rfVars, brVars>>
dupOthers == <<sanVars, durVars, chVars, fsvVars, provVars, rfVars, brVars>>
chOthers == <<sanVars, durVars, dupVars, fsvVars, provVars, rfVars, brVars>>
fsvOthers == <<sanVars, durVars, dupVars, chVars, provVars, rfVars, brVars>>
provOthers == <<sanVars, durVars, dupVars, chVars, fsvVars, rfVars, brVars>>
rfOthers == <<sanVars, durVars, dupVars, chVars, fsvVars, provVars, brVars>>
brOthers == <<sanVars, durVars, dupVars, chVars, fsvVars, provVars>>

----------------------------------------------------------------------------
(* Bounds of the model *)

MaxNameLen == 3
MaxConfigLength == 9
MaxDurLen == 5
MaxFiles == 3
NumContents == 2
MaxPages == 3
MaxPageSize == 2
MaxFetches == 2
MaxCalls == 2
MaxBatch == 3
MaxDepth == 2

----------------------------------------------------------------------------
(* Characters and text *)

Letters ==
    {"a","b","c","d","e","f","g","h","i","j","k","l","m","n","o","p","q","r",
     "s","t","u","v","w","x","y","z","A","B","C","D","E","F","G","H","I","J",
     "K","L","M","N","O","P","Q","R","S","T","U","V","W","X","Y","Z"}

Digits == {"0","1","2","3","4","5","6","7","8","9"}

\* \w of the re module
WordChars == Letters \cup Digits \cup {"_"}

\* \s of the re module, and what str.strip() removes
Whitespace == {" ", "\t"}

Min(a, b) == IF a < b THEN a ELSE b

RECURSIVE LStrip(_)
LStrip(s) ==
    IF s # <<>> /\ Head(s) \in Whitespace THEN LStrip(Tail(s)) ELSE s

RECURSIVE RStrip(_)
RStrip(s) ==
    IF s # <<>> /\ s[Len(s)] \in Whitespace
    THEN RStrip(SubSeq(s, 1, Len(s) - 1))
    ELSE s

\* str.strip()
Strip(s) == RStrip(LStrip(s))

\* s[:n]
Truncate(s, n) == SubSeq(s, 1, Min(Len(s), n))

\* the characters the pattern [^\w\-\s] does not match
KeptChar(c) == c \in WordChars \/ c = "-" \/ c \in Whitespace

\* re.sub(pattern, "", s) with count = 1: only the first match is deleted
RECURSIVE DeleteFirstMatch(_)
DeleteFirstMatch(s) ==
    IF s = <<>> THEN <<>>
    ELSE IF KeptChar(Head(s)) THEN <<Head(s)>> \o DeleteFirstMatch(Tail(s))
    ELSE Tail(s)

\* re.sub(r"[^\w\-\s]", "", s): every match is deleted
ReSubDisallowed(s) == SelectSeq(s, KeptChar)

\* _sanitize_filename deleting only the first disallowed character
AiSanitizeFirstMatchOnly(title) == DeleteFirstMatch(title)

\* AiReformatter._sanitize_filename
AiSanitizeFilename(title) == ReSubDisallowed(title)

Untitled == <<"u","n","t","i","t","l","e","d">>

DEFAULT_TRANSCRIPT_FILENAME_LENGTH == 36

\* sanitize_filename of YoutubeTranscriptDownloader.py
sanitize_filename(name, max_length) ==
    LET sanitized == Truncate(Strip(ReSubDisallowed(name)), max_length)
    IN  IF sanitized # <<>> THEN sanitized ELSE Untitled

----------------------------------------------------------------------------
(* Filename sanitization: the inputs and the two applications *)

SanAlphabet == {"a", "_", "-", " ", "!", ","}

RECURSIVE SeqsUpTo(_, _)
SeqsUpTo(S, n) ==
    IF n = 0 THEN {<<>>}
    ELSE LET shorter == SeqsUpTo(S, n - 1)
         IN  shorter \cup {Append(s, c) : s \in shorter, c \in S}

\* short names, and names long enough to be truncated
LongPrefix == <<"a","a","a","a","a","a","a">>

SanNames ==
    SeqsUpTo(SanAlphabet, MaxNameLen)
    \cup {LongPrefix \o s : s \in SeqsUpTo(SanAlphabet, MaxNameLen)}

\* the configured lengths: the default, and shorter ones that still leave
\* room for the substitute name
ConfigLengths ==
    {n \in 1..MaxConfigLength : n >= Len(Untitled)}
    \cup {DEFAULT_TRANSCRIPT_FILENAME_LENGTH}

SanInit ==
    /\ sanName \in SanNames
    /\ sanMax \in ConfigLengths
    /\ sanWhich = "none"
    /\ sanOnce = <<>>
    /\ sanTwice = <<>>
    /\ sanStage = "input"

SanIdle ==
    /\ sanName = <<>>
    /\ sanMax = DEFAULT_TRANSCRIPT_FILENAME_LENGTH
    /\ sanWhich = "none"
    /\ sanOnce = <<>>
    /\ sanTwice = <<>>
    /\ sanStage = "input"

AiSanitizeOnce ==
    /\ sanStage = "input"
    /\ sanWhich' = "ai"
    /\ sanOnce' = AiSanitizeFilename(sanName)
    /\ sanStage' = "once"
    /\ UNCHANGED <<sanName, sanMax, sanTwice>>
    /\ UNCHANGED sanOthers

AiSanitizeAgain ==
    /\ sanStage = "once"
    /\ sanWhich = "ai"
    /\ sanTwice' = AiSanitizeFilename(sanOnce)
    /\ sanStage' = "twice"
    /\ UNCHANGED <<sanName, sanMax, sanWhich, sanOnce>>
    /\ UNCHANGED sanOthers

DlSanitizeOnce ==
    /\ sanStage = "input"
    /\ sanWhich' = "dl"
    /\ sanOnce' = sanitize_filename(sanName, sanMax)
    /\ sanStage' = "once"
    /\ UNCHANGED <<sanName, sanMax, sanTwice>>
    /\ UNCHANGED sanOthers

DlSanitizeAgain ==
    /\ sanStage = "once"
    /\ sanWhich = "dl"
    /\ sanTwice' = sanitize_filename(sanOnce, sanMax)
    /\ sanStage' = "twice"
    /\ UNCHANGED <<sanName, sanMax, sanWhich, sanOnce>>
    /\ UNCHANGED sanOthers

SanNext ==
    \/ AiSanitizeOnce
    \/ AiSanitizeAgain
    \/ DlSanitizeOnce
    \/ DlSanitizeAgain

----------------------------------------------------------------------------
(* Duration normalization: format_duration *)

RECURSIVE DigitRun(_, _)
\* the length of the longest run of digits of s that starts at pos (\d+, greedy)
DigitRun(s, pos) ==
    IF pos <= Len(s) /\ s[pos] \in Digits THEN 1 + DigitRun(s, pos + 1) ELSE 0

DigitValue(c) ==
    CASE c = "0" -> 0 [] c = "1" -> 1 [] c = "2" -> 2 [] c = "3" -> 3
      [] c = "4" -> 4 [] c = "5" -> 5 [] c = "6" -> 6 [] c = "7" -> 7
      [] c = "8" -> 8 [] c = "9" -> 9

DigitChar(n) ==
    CASE n = 0 -> "0" [] n = 1 -> "1" [] n = 2 -> "2" [] n = 3 -> "3"
      [] n = 4 -> "4" [] n = 5 -> "5" [] n = 6 -> "6" [] n = 7 -> "7"
      [] n = 8 -> "8" [] n = 9 -> "9"

RECURSIVE ParseInt(_)
\* int(text) of a string of digits
ParseInt(ds) ==
    IF ds = <<>> THEN 0
    ELSE 10 * ParseInt(SubSeq(ds, 1, Len(ds) - 1)) + DigitValue(ds[Len(ds)])

RECURSIVE IntToChars(_)
\* str(n) for n >= 0
IntToChars(n) ==
    IF n < 10 THEN <<DigitChar(n)>>
    ELSE IntToChars(n \div 10) \o <<DigitChar(n % 10)>>

\* f"{n:02}"
Pad2(n) == IF n < 10 THEN <<"0">> \o IntToChars(n) ELSE IntToChars(n)

\* (?:(\d+)U)? tried at pos: the group's text (<<>> for None) and the next position
OptionalGroup(s, pos, unit) ==
    LET n == DigitRun(s, pos)
    IN  IF n >= 1 /\ pos + n <= Len(s) /\ s[pos + n] = unit
        THEN [text |-> SubSeq(s, pos, pos + n - 1), next |-> pos + n + 1]
        ELSE [text |-> <<>>, next |-> pos]

\* re.match(r"PT(?:(\d+)H)?(?:(\d+)M)?(?:(\d+)S)?", s): anchored at the start only
ReMatchIsoDuration(s) ==
    IF Len(s) >= 2 /\ s[1] = "P" /\ s[2] = "T"
    THEN LET h  == OptionalGroup(s, 3, "H")
             m  == OptionalGroup(s, h.next, "M")
             sc == OptionalGroup(s, m.next, "S")
         IN  [matched |-> TRUE, groups |-> <<h.text, m.text, sc.text>>]
    ELSE [matched |-> FALSE, groups |-> <<>>]

ZeroDuration == <<"0","0",":","0","0">>

format_duration(iso_duration) ==
    LET match == ReMatchIsoDuration(iso_duration)
    IN  IF ~match.matched THEN ZeroDuration
        ELSE LET hours   == IF match.groups[1] # <<>>
                            THEN ParseInt(match.groups[1]) ELSE 0
                 minutes == IF match.groups[2] # <<>>
                            THEN ParseInt(match.groups[2]) ELSE 0
             IN  Pad2(hours) \o <<":">> \o Pad2(minutes)

DurAlphabet == {"P", "T", "H", "M", "S", "1"}

DurInputs == SeqsUpTo(DurAlphabet, MaxDurLen)

DurInit ==
    /\ durIn \in DurInputs
    /\ durOut = <<>>
    /\ durStage = "input"

DurIdle ==
    /\ durIn = <<>>
    /\ durOut = <<>>
    /\ durStage = "input"

FormatDuration ==
    /\ durStage = "input"
    /\ durOut' = format_duration(durIn)
    /\ durStage' = "done"
    /\ UNCHANGED durIn
    /\ UNCHANGED durOthers

DurNext == FormatDuration

----------------------------------------------------------------------------
(* Duplicate detection: find_duplicate_transcripts and compute_sha1.       *)
(* A file is its position in the walk; its content is one of NumContents   *)
(* byte strings.  SHA-1 is taken to be injective on contents.              *)

NoHash == <<"None", 0>>

DupFileRecords == [txt : BOOLEAN, content : 1..NumContents, readable : BOOLEAN]

\* compute_sha1: the digest of the content, None when the file cannot be read
compute_sha1(file) ==
    IF file.readable THEN <<"sha1", file.content>> ELSE NoHash

DupInit ==
    /\ dupFiles \in UNION {[1..n -> DupFileRecords] : n \in 0..MaxFiles}
    /\ dupIdx = 0
    /\ dupHashes = <<>>
    /\ dupList = <<>>
    /\ dupReport = <<>>
    /\ dupPc = "walk"

DupIdle ==
    /\ dupFiles = <<>>
    /\ dupIdx = 0
    /\ dupHashes = <<>>
    /\ dupList = <<>>
    /\ dupReport = <<>>
    /\ dupPc = "walk"

\* one iteration of the loop over the walked files
DupVisitFile ==
    /\ dupPc = "walk"
    /\ dupIdx < Len(dupFiles)
    /\ LET file_path == dupIdx + 1
           file      == dupFiles[file_path]
           file_hash == compute_sha1(file)
       IN  IF ~file.txt
           THEN UNCHANGED <<dupHashes, dupList>>
           ELSE IF file_hash \in DOMAIN dupHashes
           THEN /\ dupList' = Append(dupList, <<file_path, dupHashes[file_hash]>>)
                /\ UNCHANGED dupHashes
           ELSE /\ dupHashes' = [h \in DOMAIN dupHashes \cup {file_hash} |->
                                   IF h = file_hash THEN file_path ELSE dupHashes[h]]
                /\ UNCHANGED dupList
    /\ dupIdx' = dupIdx + 1
    /\ UNCHANGED <<dupFiles, dupReport, dupPc>>
    /\ UNCHANGED dupOthers

\* after the walk: duplicates.txt is written only when there are duplicates
DupWriteReport ==
    /\ dupPc = "walk"
    /\ dupIdx = Len(dupFiles)
    /\ dupReport' = IF dupList # <<>> THEN dupList ELSE dupReport
    /\ dupPc' = "done"
    /\ UNCHANGED <<dupFiles, dupIdx, dupHashes, dupList>>
    /\ UNCHANGED dupOthers

DupNext ==
    \/ DupVisitFile
    \/ DupWriteReport

----------------------------------------------------------------------------
(* Video metadata: fetch_video_metadata.  The API's answer is a record:    *)
(* kind "error" (build or execute raises), "no_items", "bad_item" (an item *)
(* lacking one of the keys read from it), or "ok" with the item's fields.  *)

UnknownTitle == <<"U","n","k","n","o","w","n"," ","T","i","t","l","e">>

UnknownChannel == <<"U","n","k","n","o","w","n"," ","C","h","a","n","n","e","l">>

SentinelMetadata == <<UnknownTitle, UnknownChannel, <<>>, <<"0">>, ZeroDuration>>

MetaTitles == {<<"a">>, <<"a", "!">>, <<"?">>}

MetaChannels == {<<"c">>, <<"!">>}

MetaResponses ==
    {[kind |-> k, title |-> <<>>, channel |-> <<>>, duration |-> <<>>] :
        k \in {"error", "no_items", "bad_item"}}
    \cup [kind : {"ok"}, title : MetaTitles, channel : MetaChannels,
          duration : {<<"P","T","1","M">>}]

\* fetch_video_metadata without its try/except: the error reaches the caller
FetchMetadataPropagating(response) ==
    IF response.kind = "ok"
    THEN [raised |-> FALSE,
          record |-> <<response.title, response.channel, <<"d">>, <<"0">>,
                       format_duration(response.duration)>>]
    ELSE IF response.kind = "no_items"
    THEN [raised |-> FALSE, record |-> SentinelMetadata]
    ELSE [raised |-> TRUE, record |-> <<>>]

\* fetch_video_metadata: the record, and whether an exception left the function
fetch_video_metadata(response) ==
    IF response.kind = "ok"
    THEN [raised |-> FALSE,
          record |-> <<response.title, response.channel, <<"d">>, <<"0">>,
                       format_duration(response.duration)>>]
    ELSE IF response.kind = "no_items"
    THEN [raised |-> FALSE, record |-> SentinelMetadata]
    ELSE \* except Exception: logged, the sentinel is returned
         [raised |-> FALSE, record |-> SentinelMetadata]

----------------------------------------------------------------------------
(* Channel video enumeration: get_channel_id_from_url, fetch_channel_videos *)
(* A page of the listing API is its number of items and whether it carries *)
(* a nextPageToken; the token of page i names page i + 1.  The video ids   *)
(* of the source are pairwise distinct.                                    *)

ChPages == [size : 0..MaxPageSize, hasNext : BOOLEAN]

\* the sources the API can present: the last page it holds has no token
ChSources ==
    {s \in UNION {[1..n -> ChPages] : n \in 1..MaxPages} : ~s[Len(s)].hasNext}

\* the video ids of page p, in the order the API returns them
PageIds(p, size) == [j \in 1..size |-> (p - 1) * MaxPageSize + j]

CsvHeader == <<"Video ID", "Title", "Publish Date", "Views", "Duration (hh:mm)">>

ChOkResponse ==
    [kind |-> "ok", title |-> <<"a">>, channel |-> <<"c">>,
     duration |-> <<"P","T","1","M">>]

ChErrorResponse ==
    [kind |-> "error", title |-> <<>>, channel |-> <<>>, duration |-> <<>>]

\* one CSV row: the id, then title, publish date, views, duration
ChRow(video_id, response) ==
    LET md == fetch_video_metadata(response).record
    IN  <<video_id, md[1], md[3], md[4], md[5]>>

\* the loop never continues: it stops after its first page
ChStopAfterFirstPage(response) == FALSE

\* next_page_token = response.get("nextPageToken"); the loop goes on while set
ChHasNextPage(response) == response.hasNext

\* the handler saving the rows collected before the failure
ChExceptSavingRows(csv, videos) ==
    [state |-> "written", rows |-> <<CsvHeader>> \o videos]

\* except Exception in fetch_channel_videos: the error is logged and
\* printed; the CSV is not opened
ChExcept(csv, videos) == csv

ChInit ==
    /\ chUrl \in {"handle", "channel", "other"}
    /\ chSource \in ChSources
    /\ chPc = "resolve"
    /\ chToken = 0
    /\ chRequests = 0
    /\ chVideos = <<>>
    /\ chDir = FALSE
    /\ chCsv \in {[state |-> "absent", rows |-> <<>>],
                  [state |-> "old", rows |-> <<>>]}
    /\ chFailed = FALSE

ChIdle ==
    /\ chUrl = "channel"
    /\ chSource = <<>>
    /\ chPc = "resolve"
    /\ chToken = 0
    /\ chRequests = 0
    /\ chVideos = <<>>
    /\ chDir = FALSE
    /\ chCsv = [state |-> "absent", rows |-> <<>>]
    /\ chFailed = FALSE

\* get_channel_id_from_url, and the early return of fetch_channel_videos
ChResolve ==
    /\ chPc = "resolve"
    /\ \E found \in BOOLEAN :
          \* a handle is searched (the search may fail or find nothing), a
          \* channel/ URL carries the id, anything else raises ValueError
          LET channel_id == CASE chUrl = "handle"  -> found
                              [] chUrl = "channel" -> TRUE
                              [] OTHER             -> FALSE
          IN  IF channel_id
              THEN /\ chPc' = "open"
                   /\ UNCHANGED chFailed
              ELSE /\ chPc' = "done"
                   /\ chFailed' = TRUE
    /\ UNCHANGED <<chUrl, chSource, chToken, chRequests, chVideos, chDir, chCsv>>
    /\ UNCHANGED chOthers

\* channels().list for the channel name, then os.makedirs of its directory
ChOpen ==
    /\ chPc = "open"
    /\ \E ok \in BOOLEAN :
          IF ok
          THEN /\ chDir' = TRUE
               /\ chPc' = "list"
               /\ UNCHANGED <<chFailed, chCsv>>
          ELSE /\ chPc' = "done"
               /\ chFailed' = TRUE
               /\ chCsv' = ChExcept(chCsv, chVideos)
               /\ UNCHANGED chDir
    /\ UNCHANGED <<chUrl, chSource, chToken, chRequests, chVideos>>
    /\ UNCHANGED chOthers

\* one iteration of the while loop: a page request, a row per item
ChListPage ==
    /\ chPc = "list"
    /\ LET p == chToken + 1
       IN  \E ok \in BOOLEAN :
             IF ok
             THEN LET response == chSource[p]
                      ids      == PageIds(p, response.size)
                  IN  \E failing \in SUBSET (1..response.size) :
                        \* the metadata request of the items in failing fails
                        /\ chVideos' = chVideos \o
                              [j \in 1..response.size |->
                                 ChRow(ids[j], IF j \in failing
                                               THEN ChErrorResponse
                                               ELSE ChOkResponse)]
                        /\ chRequests' = chRequests + 1
                        /\ IF ChHasNextPage(response)
                           THEN chToken' = p /\ chPc' = "list"
                           ELSE chToken' = 0 /\ chPc' = "write"
                        /\ UNCHANGED <<chFailed, chCsv>>
             ELSE /\ chRequests' = chRequests + 1
                  /\ chPc' = "done"
                  /\ chFailed' = TRUE
                  /\ chCsv' = ChExcept(chCsv, chVideos)
                  /\ UNCHANGED <<chVideos, chToken>>
    /\ UNCHANGED <<chUrl, chSource, chDir>>
    /\ UNCHANGED chOthers

\* the CSV is opened for writing: the header row, then writerows(videos)
ChWriteCsv ==
    /\ chPc = "write"
    /\ chCsv' = [state |-> "written", rows |-> <<CsvHeader>> \o chVideos]
    /\ chPc' = "done"
    /\ UNCHANGED <<chUrl, chSource, chToken, chRequests, chVideos, chDir, chFailed>>
    /\ UNCHANGED chOthers

ChNext ==
    \/ ChResolve
    \/ ChOpen
    \/ ChListPage
    \/ ChWriteCsv

----------------------------------------------------------------------------
(* Single-video fetch: fetch_single_video and save_transcript *)

TxtSuffix == <<".","t","x","t">>

FsvUrls == {"watch?v=video1", "watch?v=video2", "not a video url"}

\* re.search(youtube_video_id, url): whether the URL carries a video id
HasVideoId(url) == url # "not a video url"

\* save_transcript: the path written and its content
SavedPath(channel_name, video_title) ==
    <<sanitize_filename(channel_name, sanMax),
      sanitize_filename(video_title, sanMax) \o TxtSuffix>>

SavedContent(video_url, channel_name, video_title) ==
    [url |-> video_url, channel |-> channel_name, title |-> video_title]

\* open(filename, "w"): the file is created or replaced
WriteFile(files, path, content) ==
    [q \in DOMAIN files \cup {path} |-> IF q = path THEN content ELSE files[q]]

FsvInit ==
    /\ trFiles = <<>>
    /\ fsvCalls = 0
    /\ fsvTranscript = "none"
    /\ fsvMeta = "not_called"
    /\ fsvRecord = <<>>
    /\ fsvMetaRaised = FALSE
    /\ fsvWritten = <<>>

FsvIdle == FsvInit

\* one call of fetch_single_video(video_url)
FetchSingleVideo ==
    /\ fsvCalls < MaxFetches
    /\ fsvCalls' = fsvCalls + 1
    /\ \E video_url \in FsvUrls,
          transcript \in {"ok", "disabled", "not_found", "error"},
          response \in MetaResponses :
          IF ~HasVideoId(video_url)
          THEN /\ fsvTranscript' = "invalid_url"
               /\ fsvMeta' = "not_called"
               /\ fsvRecord' = <<>>
               /\ fsvMetaRaised' = FALSE
               /\ fsvWritten' = <<>>
               /\ UNCHANGED trFiles
          ELSE IF transcript # "ok"
          THEN \* TranscriptsDisabled, NoTranscriptFound, any other exception
               /\ fsvTranscript' = transcript
               /\ fsvMeta' = "not_called"
               /\ fsvRecord' = <<>>
               /\ fsvMetaRaised' = FALSE
               /\ fsvWritten' = <<>>
               /\ UNCHANGED trFiles
          ELSE LET md == fetch_video_metadata(response)
               IN  /\ fsvTranscript' = "ok"
                   /\ fsvMeta' = response.kind
                   /\ fsvMetaRaised' = md.raised
                   /\ fsvRecord' = md.record
                   /\ IF md.raised
                      THEN \* except Exception in fetch_single_video
                           /\ fsvWritten' = <<>>
                           /\ UNCHANGED trFiles
                      ELSE LET video_title  == md.record[1]
                               channel_name == md.record[2]
                               path == SavedPath(channel_name, video_title)
                           IN  /\ trFiles' = WriteFile(trFiles, path,
                                     SavedContent(video_url, channel_name,
                                                  video_title))
                               /\ fsvWritten' = path
    /\ UNCHANGED fsvOthers

FsvNext == FetchSingleVideo

----------------------------------------------------------------------------
(* Provider registry: set_provider, the provider setter, _set_client and   *)
(* select_ai_provider.  The store is the "ai-providers" object of          *)
(* API_KEY.json; a profile whose "model" is "" specifies no model.         *)

ProviderNames == <<"openai", "deepseek">>

NamedProviders == {ProviderNames[i] : i \in 1..Len(ProviderNames)}

ProfileOf(n) ==
    [api_key  |-> "key-" \o n,
     base_url |-> "https://" \o n,
     model    |-> IF n = "openai" THEN "" ELSE "model-" \o n,
     name     |-> n]

NoProvider == [api_key |-> "", base_url |-> "", model |-> "", name |-> "<None>"]

NoClient == [api_key |-> "", base_url |-> "<None>"]

\* the stores the credentials file can hold
Stores ==
    {s \in UNION {[D -> {ProfileOf(n) : n \in NamedProviders \cup {"legacy"}}] :
                     D \in SUBSET (NamedProviders \cup {"default"})} :
        \A n \in DOMAIN s \cap NamedProviders : s[n] = ProfileOf(n)}

\* OpenAI(api_key=api_key, base_url=base_url)
OpenAI(api_key, base_url) == [api_key |-> api_key, base_url |-> base_url]

\* the "default" entry is written only when the store has none
SetDefaultIfAbsent(s, selected_provider) ==
    IF "default" \in DOMAIN s THEN s
    ELSE [n \in DOMAIN s \cup {"default"} |->
            IF n = "default" THEN s[selected_provider] ELSE s[n]]

\* the selected entry is moved to "default" instead of being copied
SetDefaultMoving(s, selected_provider) ==
    [n \in (DOMAIN s \ {selected_provider}) \cup {"default"} |->
        IF n = "default" THEN s[selected_provider] ELSE s[n]]

\* api_keys["ai-providers"]["default"] = api_keys["ai-providers"][selected]
SetDefault(s, selected_provider) ==
    [n \in DOMAIN s \cup {"default"} |->
        IF n = "default" THEN s[selected_provider] ELSE s[n]]

\* the provider names the menu lists, in the order of the file
MenuProviders == SelectSeq(ProviderNames, LAMBDA n : n \in DOMAIN store)

ProvInit ==
    /\ store \in Stores
    /\ running = FALSE
    /\ provider = NoProvider
    /\ client = NoClient
    /\ setRaised = FALSE
    /\ setName = "none"
    /\ setReturned = NoProvider
    /\ engLoaded = "none"
    /\ engFresh = FALSE
    /\ menuChoice = "none"
    /\ selLast = "none"

ProvIdle ==
    /\ store = <<>>
    /\ running = FALSE
    /\ provider = NoProvider
    /\ client = NoClient
    /\ setRaised = FALSE
    /\ setName = "none"
    /\ setReturned = NoProvider
    /\ engLoaded = "none"
    /\ engFresh = FALSE
    /\ menuChoice = "none"
    /\ selLast = "none"

\* set_provider with a missing name also clearing the active provider
SetProviderClearing(provider_name) ==
    /\ setName' = provider_name
    /\ IF provider_name \in DOMAIN store
       THEN /\ client' = OpenAI(store[provider_name].api_key,
                                store[provider_name].base_url)
            /\ provider' = store[provider_name]
            /\ setReturned' = store[provider_name]
            /\ setRaised' = FALSE
            /\ engLoaded' = provider_name
            /\ engFresh' = TRUE
       ELSE /\ setRaised' = TRUE
            /\ setReturned' = NoProvider
            /\ provider' = NoProvider
            /\ client' = NoClient
            /\ UNCHANGED <<engLoaded, engFresh>>

\* what set_provider(provider_name) does to the engine
SetProviderEffect(provider_name) ==
    /\ setName' = provider_name
    /\ IF provider_name \in DOMAIN store
       THEN \* _set_client, then the provider setter (which sets the client
            \* again); the profile is returned
            /\ client' = OpenAI(store[provider_name].api_key,
                                store[provider_name].base_url)
            /\ provider' = store[provider_name]
            /\ setReturned' = store[provider_name]
            /\ setRaised' = FALSE
            /\ engLoaded' = provider_name
            /\ engFresh' = TRUE
       ELSE \* .get gives None, "not found" is printed, None["api_key"]
            \* raises before _set_client: nothing is returned
            /\ setRaised' = TRUE
            /\ setReturned' = NoProvider
            /\ UNCHANGED <<provider, client, engLoaded, engFresh>>

\* AiReformatter(): __init__ clears both fields and calls set_provider("default")
Construct ==
    /\ IF "default" \in DOMAIN store
       THEN /\ SetProviderEffect("default")
            /\ running' = TRUE
       ELSE \* the constructor raises: there is no engine
            /\ provider' = NoProvider
            /\ client' = NoClient
            /\ setRaised' = TRUE
            /\ setName' = "default"
            /\ setReturned' = NoProvider
            /\ engLoaded' = "none"
            /\ engFresh' = FALSE
            /\ running' = FALSE
    /\ UNCHANGED <<store, menuChoice, selLast>>
    /\ UNCHANGED provOthers

\* set_provider(provider_name) on the constructed engine
SetProvider ==
    /\ running
    /\ \E provider_name \in NamedProviders \cup {"default", "unknown"} :
          SetProviderEffect(provider_name)
    /\ UNCHANGED <<store, running, menuChoice, selLast>>
    /\ UNCHANGED provOthers

\* select_ai_provider: one pass of its loop, from the prompt to the return
\* or to the next prompt
SelectAiProvider ==
    /\ running
    /\ \E isdigit \in BOOLEAN,
          choice \in 0..(Len(ProviderNames) + 2),
          set_default \in {"", "y", "yes", "n"} :
          LET providers == MenuProviders
          IN  IF ~isdigit
              THEN \* not choice.isdigit(): prompt again
                   /\ menuChoice' = "not_a_number"
                   /\ UNCHANGED <<store, selLast, engFresh>>
              ELSE IF choice - 1 = Len(providers)
              THEN /\ menuChoice' = "go_back"
                   /\ UNCHANGED <<store, selLast, engFresh>>
              ELSE IF 0 <= choice - 1 /\ choice - 1 < Len(providers)
              THEN LET selected_provider == providers[choice]
                   IN  IF set_default \in {"", "y", "yes"}
                       THEN /\ store' = SetDefault(store, selected_provider)
                            /\ selLast' = selected_provider
                            /\ engFresh' = FALSE
                            /\ menuChoice' = "set_default"
                       ELSE /\ menuChoice' = "declined"
                            /\ UNCHANGED <<store, selLast, engFresh>>
              ELSE /\ menuChoice' = "invalid"
                   /\ UNCHANGED <<store, selLast, engFresh>>
    /\ UNCHANGED <<running, provider, client, setRaised, setName, setReturned,
                   engLoaded>>
    /\ UNCHANGED provOthers

ProvNext ==
    \/ Construct
    \/ SetProvider
    \/ SelectAiProvider

----------------------------------------------------------------------------
(* Reformatting engine: reformat_transcript, process_file,                 *)
(* process_directory and the directory batch of display_reformat_menu.     *)
(* A path is the sequence of its components; os.path.join with an empty    *)
(* component adds none ("processed/" is the directory processed).          *)

ProcessedRoot == <<"p","r","o","c","e","s","s","e","d">>

JsonSuffix == <<".","j","s","o","n">>

DefaultModel == "o1"

\* os.path.join(directory, name)
PathJoin(directory, name) ==
    IF name = <<>> THEN directory ELSE Append(directory, name)

\* os.makedirs(path, exist_ok=True): the directory and its ancestors
Makedirs(dirs, path) ==
    dirs \cup {SubSeq(path, 1, n) : n \in 1..Len(path)}

\* the input documents: which keys they carry, and the channel name
InputDocs ==
    [hasTranscript : {TRUE}, hasMetadata : {TRUE}, hasChannel : {TRUE},
     channel : {<<"c">>, <<"!">>}]
    \cup {[hasTranscript |-> FALSE, hasMetadata |-> TRUE, hasChannel |-> TRUE,
           channel |-> <<"c">>],
          [hasTranscript |-> TRUE, hasMetadata |-> FALSE, hasChannel |-> FALSE,
           channel |-> <<>>],
          [hasTranscript |-> TRUE, hasMetadata |-> TRUE, hasChannel |-> FALSE,
           channel |-> <<>>]}

NoDoc ==
    [hasTranscript |-> FALSE, hasMetadata |-> FALSE, hasChannel |-> FALSE,
     channel |-> <<>>]

\* a field of the response object: absent, falsy ("", null, 0), a string,
\* or a truthy value that is no string
Absent == [state |-> "absent", text |-> <<>>]

Falsy == [state |-> "empty", text |-> <<>>]

NonString == [state |-> "nonstring", text |-> <<>>]

Text(s) == [state |-> "text", text |-> s]

TitleValues == {Absent, Falsy, NonString, Text(<<"T">>), Text(<<"T", "!">>)}

BodyValues == {Absent, Falsy, Text(<<"b">>)}

\* what the chat request can give: an exception, a falsy response, a
\* provider error in model_extra, a message without content, content that
\* is no JSON, JSON that is no object, or a JSON object
ResponseKinds ==
    {"transport_error", "empty", "provider_error", "no_content", "not_json",
     "not_object"}

Responses ==
    {[kind |-> k, title |-> Absent, summary |-> Absent, content |-> Absent] :
        k \in ResponseKinds}
    \cup [kind : {"object"}, title : TitleValues, summary : BodyValues,
          content : BodyValues]

NoResponse ==
    [kind |-> "none", title |-> Absent, summary |-> Absent, content |-> Absent]

\* the truth value Python gives the field
Truthy(field) == field.state \in {"text", "nonstring"}

\* the check with only the title tested
TitleIsTruthy(json_response) == Truthy(json_response.title)

\* json_response.get("title") and .get("summary") and .get("content")
ResponseIsValid(json_response) ==
    /\ Truthy(json_response.title)
    /\ Truthy(json_response.summary)
    /\ Truthy(json_response.content)

\* the request always naming the default model
RequestModelFixed(p) == DefaultModel

\* self.provider.get("model") or "o1"
RequestModel(p) == IF p.model # "" THEN p.model ELSE DefaultModel

\* what a call leaves behind when it returns None without touching the disk
ReturnNone(dirs, files, requests) ==
    [raised |-> FALSE, requests |-> requests, returned |-> FALSE,
     dirs |-> dirs, files |-> files, made |-> {}, wrote |-> {}]

\* the except branch with one more attempt at the request
RequestFailedRetry(dirs, files) == ReturnNone(dirs, files, 2)

\* except Exception around the request: reported, None returned
RequestFailed(dirs, files) == ReturnNone(dirs, files, 1)

\* reformat_transcript(input_json) given the answer to its chat request
Reformat(dirs, files, input_json, response) ==
    IF ~input_json.hasTranscript \/ ~input_json.hasMetadata
    THEN \* KeyError while the prompt is built, outside both try blocks
         [raised |-> TRUE, requests |-> 0, returned |-> FALSE,
          dirs |-> dirs, files |-> files, made |-> {}, wrote |-> {}]
    ELSE IF response.kind = "transport_error"
    THEN RequestFailed(dirs, files)
    ELSE IF response.kind # "object"
    THEN \* falsy response, provider error, json.loads or .get raising
         ReturnNone(dirs, files, 1)
    ELSE IF ~ResponseIsValid(response)
    THEN ReturnNone(dirs, files, 1)
    ELSE IF ~input_json.hasChannel
    THEN \* KeyError on metadata["channel_name"], caught
         ReturnNone(dirs, files, 1)
    ELSE LET channel_name == AiSanitizeFilename(input_json.channel)
             output_dir   == PathJoin(ProcessedRoot, channel_name)
             made         == Makedirs(dirs, <<ProcessedRoot>> \o
                                 (IF channel_name = <<>> THEN <<>>
                                  ELSE <<channel_name>>))
         IN  IF response.title.state = "nonstring"
             THEN \* re.sub raises TypeError after the directory was made
                  [raised |-> FALSE, requests |-> 1, returned |-> FALSE,
                   dirs |-> made, files |-> files, made |-> made \ dirs,
                   wrote |-> {}]
             ELSE LET filename == AiSanitizeFilename(response.title.text)
                                      \o JsonSuffix
                      filepath == <<output_dir, filename>>
                  IN  [raised |-> FALSE, requests |-> 1, returned |-> TRUE,
                       dirs |-> made,
                       files |-> WriteFile(files, filepath,
                                    [title |-> response.title,
                                     summary |-> response.summary,
                                     content |-> response.content]),
                       made |-> made \ dirs, wrote |-> {filepath}]

NoCall ==
    [called |-> FALSE, input |-> NoDoc, response |-> NoResponse,
     model |-> "", client |-> NoClient,
     raised |-> FALSE, requests |-> 0, returned |-> FALSE,
     made |-> {}, wrote |-> {}]

\* the record of a call
CallRecord(input_json, response, r) ==
    [called |-> TRUE, input |-> input_json, response |-> response,
     model |-> IF r.requests > 0 THEN RequestModel(provider) ELSE "",
     client |-> IF r.requests > 0 THEN client ELSE NoClient,
     raised |-> r.raised, requests |-> r.requests, returned |-> r.returned,
     made |-> r.made, wrote |-> r.wrote]

RfInit ==
    /\ procDirs = {}
    /\ procFiles = <<>>
    /\ rfCalls = 0
    /\ rfLast = NoCall
    /\ rfTally = [returned |-> 0, writes |-> 0]
    /\ batItems = <<>>
    /\ batIdx = 0
    /\ batPc = "idle"
    /\ batTried = {}
    /\ batWrote = {}

RfIdle == RfInit

\* the engine as AiReformatter() leaves it with both providers and a default
ProvReady ==
    /\ store = [n \in NamedProviders \cup {"default"} |->
                  IF n = "default" THEN ProfileOf("openai") ELSE ProfileOf(n)]
    /\ running = TRUE
    /\ provider = store["default"]
    /\ client = OpenAI(provider.api_key, provider.base_url)
    /\ setRaised = FALSE
    /\ setName = "default"
    /\ setReturned = provider
    /\ engLoaded = "default"
    /\ engFresh = TRUE
    /\ menuChoice = "none"
    /\ selLast = "none"

\* the calls reformat_transcript can get: a document, and the answer to its
\* request (none is sent for a document that lacks a key the prompt reads)
Raises(input_json) == ~input_json.hasTranscript \/ ~input_json.hasMetadata

CallCases ==
    {<<d, NoResponse>> : d \in {x \in InputDocs : Raises(x)}}
    \cup ({x \in InputDocs : ~Raises(x)} \X Responses)

\* a call of reformat_transcript(input_json), for one of the given cases
ReformatCall(cases) ==
    /\ batPc = "idle"
    /\ rfCalls < MaxCalls
    /\ rfCalls' = rfCalls + 1
    /\ \E c \in cases :
          LET r == Reformat(procDirs, procFiles, c[1], c[2])
          IN  /\ procDirs' = r.dirs
              /\ procFiles' = r.files
              /\ rfLast' = CallRecord(c[1], c[2], r)
              /\ rfTally' = [returned |-> rfTally.returned
                                            + (IF r.returned THEN 1 ELSE 0),
                             writes   |-> rfTally.writes
                                            + Cardinality(r.wrote)]
    /\ UNCHANGED <<batItems, batIdx, batPc, batTried, batWrote>>
    /\ UNCHANGED rfOthers

ReformatTranscript == ReformatCall(CallCases)

\* the entries of a batch: a file that cannot be opened, a file that is no
\* JSON, or a document with the answer to its request
BatchResponses ==
    {r \in Responses :
        \/ r.kind \in {"transport_error", "not_json"}
        \/ /\ r.kind = "object"
           /\ r.content = Text(<<"b">>)
           /\ r.summary \in {Falsy, Text(<<"b">>)}
           /\ r.title # Absent
           /\ (r.summary = Falsy => r.title = Text(<<"T">>))}

BatchCases ==
    {<<"unreadable", NoDoc, NoResponse>>, <<"malformed", NoDoc, NoResponse>>}
    \cup {<<"document", c[1], c[2]>> :
            c \in {x \in CallCases : x[1].hasChannel
                                     /\ x[2] \in BatchResponses \cup {NoResponse}}}

\* menu choice 3: a directory is chosen and listed; its entries are then
\* processed by process_directory or by the loop over os.walk
BatchStart ==
    /\ batPc = "idle"
    /\ \E n \in 1..MaxBatch :
          \E items \in [1..n -> BOOLEAN] : batItems' = items
    /\ batIdx' = 0
    /\ batPc' = "run"
    /\ UNCHANGED <<procDirs, procFiles, rfCalls, rfLast, rfTally, batTried,
                   batWrote>>
    /\ UNCHANGED rfOthers

\* one iteration of the loop over the entries: process_file on a .json entry
BatchStep ==
    /\ batPc = "run"
    /\ batIdx < Len(batItems)
    /\ batIdx' = batIdx + 1
    /\ LET i == batIdx + 1
       IN  IF ~batItems[i]
           THEN \* not a .json name: skipped
                UNCHANGED <<procDirs, procFiles, rfLast, batPc, batTried,
                            batWrote>>
           ELSE \E c \in BatchCases :
                  /\ batTried' = batTried \cup {i}
                  /\ IF c[1] = "unreadable"
                     THEN \* open raises OSError: nothing catches it
                          /\ batPc' = "crashed"
                          /\ UNCHANGED <<procDirs, procFiles, rfLast, batWrote>>
                     ELSE IF c[1] = "malformed"
                     THEN \* json.load raises JSONDecodeError, a ValueError:
                          \* the menu's except ValueError ends the batch
                          /\ batPc' = "aborted"
                          /\ UNCHANGED <<procDirs, procFiles, rfLast, batWrote>>
                     ELSE LET r == Reformat(procDirs, procFiles, c[2], c[3])
                          IN  /\ procDirs' = r.dirs
                              /\ procFiles' = r.files
                              /\ rfLast' = CallRecord(c[2], c[3], r)
                              /\ batWrote' = batWrote \cup r.wrote
                              \* a KeyError leaves reformat_transcript and
                              \* nothing catches it
                              /\ batPc' = IF r.raised THEN "crashed" ELSE batPc
    /\ UNCHANGED <<rfCalls, rfTally, batItems>>
    /\ UNCHANGED rfOthers

\* the loop has passed every entry
BatchEnd ==
    /\ batPc = "run"
    /\ batIdx = Len(batItems)
    /\ batPc' = "done"
    /\ UNCHANGED <<procDirs, procFiles, rfCalls, rfLast, rfTally, batItems,
                   batIdx, batTried, batWrote>>
    /\ UNCHANGED rfOthers

RfNext == ReformatTranscript

BatchNext ==
    \/ BatchStart
    \/ BatchStep
    \/ BatchEnd

----------------------------------------------------------------------------
(* Single-file browser: menu choice 2 of display_reformat_menu.  A         *)
(* directory is the sequence of its path components.  The tree below the   *)
(* starting directory is regular: every directory less than brDepth levels *)
(* below the start holds the subdirectories brNames, and every directory   *)
(* holds the files brFiles.  The tree does not change while it is browsed. *)

\* os.getcwd()
Getcwd == <<"home", "work">>

BrDirNames == {".git", "Back", "__pycache__", "a"}

BrFileNames == {"config.json", "doc.json"}

\* sorted(): the names in the order of their code points
BrSorted == <<".git", "Back", "__pycache__", "a", "config.json", "doc.json">>

\* item.endswith(".json")
EndsWithJson(item) == item \in {"config.json", "doc.json"}

\* item.startswith("API_KEY") or item.startswith("config")
IsCredentialFile(item) == item = "config.json"

\* item.startswith(".") or item.startswith("__")
IsHiddenName(item) == item \in {".git", "__pycache__"}

\* os.path.dirname(path)
Dirname(path) == SubSeq(path, 1, Len(path) - 1)

\* whether path is directory or one of its descendants
IsWithin(directory, path) ==
    /\ Len(path) >= Len(directory)
    /\ SubSeq(path, 1, Len(directory)) = directory

\* the subdirectories of a directory
BrSubdirs(directory) ==
    IF IsWithin(Getcwd, directory)
    THEN IF Len(directory) - Len(Getcwd) < brDepth THEN brNames ELSE {}
    ELSE IF directory = SubSeq(Getcwd, 1, Len(directory))
    THEN {Getcwd[Len(directory) + 1]}
    ELSE {}

\* os.path.isdir(os.path.join(current_dir, item))
IsDir(directory, item) == item \in BrSubdirs(directory)

\* os.listdir(current_dir)
Listdir(directory) ==
    BrSubdirs(directory)
    \cup (IF IsWithin(Getcwd, directory) THEN brFiles ELSE {})

\* filtered_items: "Back", then the JSON files and the directories shown
FilteredItems(directory) ==
    <<"Back">> \o
    SelectSeq(BrSorted,
              LAMBDA item :
                  /\ item \in Listdir(directory)
                  /\ \/ EndsWithJson(item) /\ ~IsCredentialFile(item)
                     \/ IsDir(directory, item) /\ ~IsHiddenName(item))

\* the test never finding the starting directory
AtStartNever(current_dir) == FALSE

\* current_dir == os.getcwd()
AtStart(current_dir) == current_dir = Getcwd

\* what process_file can meet for the file chosen in the browser
BrowseCases ==
    {c \in BatchCases :
        c[1] = "document" =>
            /\ c[2].channel = <<"c">>
            /\ \/ c[3] = NoResponse
               \/ c[3].kind = "transport_error"
               \/ /\ c[3].kind = "object"
                  /\ c[3].title = Text(<<"T">>)
                  /\ c[3].summary = Text(<<"b">>)
                  /\ c[3].content = Text(<<"b">>)}

BrInit ==
    /\ brNames \in SUBSET BrDirNames
    /\ brDepth \in 0..MaxDepth
    /\ brFiles \in SUBSET BrFileNames
    /\ brDir = Getcwd
    /\ brPc = "menu"
    /\ brLast = "none"

BrIdle ==
    /\ brNames = {}
    /\ brDepth = 0
    /\ brFiles = {}
    /\ brDir = Getcwd
    /\ brPc = "menu"
    /\ brLast = "none"

\* choice 2 of the reformat menu: the browser starts in os.getcwd()
BrowserOpen ==
    /\ brPc = "menu"
    /\ brDir' = Getcwd
    /\ brPc' = "browse"
    /\ brLast' = "open"
    /\ UNCHANGED <<brNames, brDepth, brFiles>>
    /\ UNCHANGED rfVars
    /\ UNCHANGED brOthers

\* "Back", or a listing with nothing to show: the browser is left at the
\* starting directory, and goes one level up anywhere else
BrowserUp(how) ==
    /\ brLast' = how
    /\ IF AtStart(brDir)
       THEN brPc' = "menu" /\ brDir' = brDir
       ELSE brPc' = "browse" /\ brDir' = Dirname(brDir)
    /\ UNCHANGED rfVars

\* one pass of the browser loop: the listing, the prompt, the selection
BrowseStep ==
    /\ brPc = "browse"
    /\ LET filtered_items == FilteredItems(brDir)
       IN  IF Len(filtered_items) = 1
           THEN BrowserUp("empty")
           ELSE \E isnumber \in BOOLEAN,
                   number \in 0..(Len(filtered_items) + 1),
                   c \in BrowseCases :
                  LET choice == number - 1
                  IN  IF ~isnumber
                      THEN \* int() raises ValueError: prompt again
                           /\ brLast' = "not_a_number"
                           /\ UNCHANGED <<brDir, brPc>>
                           /\ UNCHANGED rfVars
                      ELSE IF choice = -1
                      THEN \* exit()
                           /\ brLast' = "exit"
                           /\ brPc' = "exited"
                           /\ UNCHANGED brDir
                           /\ UNCHANGED rfVars
                      ELSE IF ~(0 <= choice /\ choice < Len(filtered_items))
                      THEN /\ brLast' = "invalid"
                           /\ UNCHANGED <<brDir, brPc>>
                           /\ UNCHANGED rfVars
                      ELSE LET selected == filtered_items[choice + 1]
                           IN  IF selected = "Back"
                               THEN BrowserUp("back")
                               ELSE IF IsDir(brDir, selected)
                               THEN /\ brDir' = Append(brDir, selected)
                                    /\ brLast' = "enter"
                                    /\ UNCHANGED brPc
                                    /\ UNCHANGED rfVars
                               ELSE \* process_file(item_path)
                                    /\ brLast' = "file"
                                    /\ UNCHANGED brDir
                                    /\ UNCHANGED <<rfCalls, rfTally, batItems,
                                                   batIdx, batPc, batTried,
                                                   batWrote>>
                                    /\ IF c[1] = "unreadable"
                                       THEN \* OSError: nothing catches it
                                            /\ brPc' = "crashed"
                                            /\ UNCHANGED <<procDirs, procFiles,
                                                           rfLast>>
                                       ELSE IF c[1] = "malformed"
                                       THEN \* JSONDecodeError is caught by
                                            \* except ValueError: prompt again
                                            /\ UNCHANGED brPc
                                            /\ UNCHANGED <<procDirs, procFiles,
                                                           rfLast>>
                                       ELSE LET r == Reformat(procDirs, procFiles,
                                                             c[2], c[3])
                                            IN  /\ procDirs' = r.dirs
                                                /\ procFiles' = r.files
                                                /\ rfLast' = CallRecord(c[2], c[3], r)
                                                /\ brPc' = IF r.raised
                                                           THEN "crashed"
                                                           ELSE brPc
    /\ UNCHANGED <<brNames, brDepth, brFiles>>
    /\ UNCHANGED brOthers

BrNext ==
    \/ BrowserOpen
    \/ BrowseStep

----------------------------------------------------------------------------
(* Specifications: one per subsystem *)

InitSanitize ==
    /\ SanInit
    /\ DurIdle
    /\ DupIdle
    /\ ChIdle
    /\ FsvIdle
    /\ ProvIdle
    /\ RfIdle
    /\ BrIdle

SpecSanitize == InitSanitize /\ [][SanNext]_vars

InitDuration ==
    /\ DurInit
    /\ SanIdle
    /\ DupIdle
    /\ ChIdle
    /\ FsvIdle
    /\ ProvIdle
    /\ RfIdle
    /\ BrIdle

SpecDuration == InitDuration /\ [][DurNext]_vars

InitDuplicates ==
    /\ DupInit
    /\ SanIdle
    /\ DurIdle
    /\ ChIdle
    /\ FsvIdle
    /\ ProvIdle
    /\ RfIdle
    /\ BrIdle

SpecDuplicates == InitDuplicates /\ [][DupNext]_vars

InitChannel ==
    /\ ChInit
    /\ SanIdle
    /\ DurIdle
    /\ DupIdle
    /\ FsvIdle
    /\ ProvIdle
    /\ RfIdle
    /\ BrIdle

SpecChannel == InitChannel /\ [][ChNext]_vars

InitFetch ==
    /\ FsvInit
    /\ SanIdle
    /\ DurIdle
    /\ DupIdle
    /\ ChIdle
    /\ ProvIdle
    /\ RfIdle
    /\ BrIdle

SpecFetch == InitFetch /\ [][FsvNext]_vars

InitProvider ==
    /\ ProvInit
    /\ SanIdle
    /\ DurIdle
    /\ DupIdle
    /\ ChIdle
    /\ FsvIdle
    /\ RfIdle
    /\ BrIdle

SpecProvider == InitProvider /\ [][ProvNext]_vars

InitReformat ==
    /\ RfInit
    /\ SanIdle
    /\ DurIdle
    /\ DupIdle
    /\ ChIdle
    /\ FsvIdle
    /\ ProvReady
    /\ BrIdle

SpecReformat == InitReformat /\ [][RfNext]_vars

InitBatch ==
    /\ RfInit
    /\ SanIdle
    /\ DurIdle
    /\ DupIdle
    /\ ChIdle
    /\ FsvIdle
    /\ ProvReady
    /\ BrIdle

SpecBatch == InitBatch /\ [][BatchNext]_vars

\* the engine in use: providers are activated between reformat calls
InitEngine ==
    /\ RfInit
    /\ SanIdle
    /\ DurIdle
    /\ DupIdle
    /\ ChIdle
    /\ FsvIdle
    /\ ProvReady
    /\ BrIdle

\* the calls made between activations: every document, with a request
\* that fails or a response that is saved
EngineCases ==
    {c \in CallCases :
        \/ c[2] = NoResponse
        \/ c[2].kind = "transport_error"
        \/ /\ c[2].kind = "object"
           /\ c[2].title = Text(<<"T">>)
           /\ c[2].summary = Text(<<"b">>)
           /\ c[2].content = Text(<<"b">>)}

EngineReformat == ReformatCall(EngineCases)

EngineNext ==
    \/ SetProvider
    \/ EngineReformat

SpecEngine == InitEngine /\ [][EngineNext]_vars

InitBrowser ==
    /\ BrInit
    /\ SanIdle
    /\ DurIdle
    /\ DupIdle
    /\ ChIdle
    /\ FsvIdle
    /\ ProvReady
    /\ RfInit

SpecBrowser == InitBrowser /\ [][BrNext]_vars


----------------------------------------------------------------------------
(* C8: the reformatter's filename sanitization is idempotent,              *)
(* sanitize(sanitize(s)) = sanitize(s) for every s, and it maps            *)
(* "Hello, World! (2024)" to "Hello World 2024".                           *)

HelloWorldRaw ==
    <<"H","e","l","l","o",","," ","W","o","r","l","d","!"," ",
      "(","2","0","2","4",")">>

HelloWorldClean ==
    <<"H","e","l","l","o"," ","W","o","r","l","d"," ","2","0","2","4">>

C8_AiSanitizeIdempotent ==
    /\ (sanWhich = "ai" /\ sanStage = "twice") => sanTwice = sanOnce
    /\ (sanWhich = "ai" /\ sanStage # "input") =>
           /\ \A i \in 1..Len(sanOnce) : KeptChar(sanOnce[i])
           /\ AiSanitizeFilename(HelloWorldRaw) = HelloWorldClean

\* a name with two disallowed characters has been sanitized twice
C8_Witness ==
    /\ sanWhich = "ai"
    /\ sanStage = "twice"
    /\ Len(sanName) - Len(sanOnce) >= 2
    /\ sanOnce # <<>>

(* C9: the transcript filename sanitization is idempotent for every name   *)
(* and maximum length, also when the truncated form ends in whitespace.    *)

C9_DlSanitizeIdempotent ==
    (sanWhich = "dl" /\ sanStage = "twice") => sanTwice = sanOnce

(* C10: format_duration converts PT[#H][#M][#S], any component optional,   *)
(* to zero-padded hh:mm with the seconds discarded, and gives "00:00" for  *)
(* every input that is not of that form.                                   *)

\* one component of the form: nothing, or digits followed by the unit letter
IsDurPart(seg, unit) ==
    \/ seg = <<>>
    \/ /\ Len(seg) >= 2
       /\ seg[Len(seg)] = unit
       /\ \A i \in 1..(Len(seg) - 1) : seg[i] \in Digits

DurPartValue(seg) ==
    IF seg = <<>> THEN 0 ELSE ParseInt(SubSeq(seg, 1, Len(seg) - 1))

\* the ways of cutting s into "PT", an hours part, a minutes part, a seconds part
IsoSplits(s) ==
    IF Len(s) >= 2 /\ s[1] = "P" /\ s[2] = "T"
    THEN {c \in (2..Len(s)) \X (2..Len(s)) :
            /\ c[1] <= c[2]
            /\ IsDurPart(SubSeq(s, 3, c[1]), "H")
            /\ IsDurPart(SubSeq(s, c[1] + 1, c[2]), "M")
            /\ IsDurPart(SubSeq(s, c[2] + 1, Len(s)), "S")}
    ELSE {}

ExpectedDuration(s) ==
    IF IsoSplits(s) = {} THEN ZeroDuration
    ELSE LET c == CHOOSE c \in IsoSplits(s) : TRUE
         IN  Pad2(DurPartValue(SubSeq(s, 3, c[1]))) \o <<":">>
                 \o Pad2(DurPartValue(SubSeq(s, c[1] + 1, c[2])))

C10_DurationNormalized ==
    durStage = "done" => durOut = ExpectedDuration(durIn)

(* C6: over the .txt files under the search root, two files with identical *)
(* content are reported as one (duplicate, original) pair whose original   *)
(* is the one visited first, and two files with differing content are      *)
(* never reported as a pair, also when a file's hash cannot be computed.   *)

DupTxt == {i \in 1..Len(dupFiles) : dupFiles[i].txt}

\* the first .txt file visited that has the content of file i
FirstWithContent(i) ==
    CHOOSE k \in DupTxt :
        /\ dupFiles[k].content = dupFiles[i].content
        /\ \A j \in DupTxt : dupFiles[j].content = dupFiles[i].content => k <= j

ReportedPairs == {dupReport[n] : n \in 1..Len(dupReport)}

C6_DuplicatesExact ==
    dupPc = "done" =>
        LET pairs == ReportedPairs
        IN  /\ \A pr \in pairs :
                   dupFiles[pr[1]].content = dupFiles[pr[2]].content
            /\ \A i \in DupTxt :
                   (dupFiles[i].readable /\ dupFiles[FirstWithContent(i)].readable
                        /\ FirstWithContent(i) # i)
                       => <<i, FirstWithContent(i)>> \in pairs

(* C7: for a paginated source whose pages p1..pk end with the first page   *)
(* that has no continuation token, fetch_channel_videos requests exactly   *)
(* k pages and writes one CSV row per returned video id, |p1|+...+|pk|     *)
(* rows, in the order the API returned them.                               *)

\* k: the first page without a continuation token
LastPage == CHOOSE k \in 1..Len(chSource) :
                /\ ~chSource[k].hasNext
                /\ \A i \in 1..(k - 1) : chSource[i].hasNext

RECURSIVE IdsOfPages(_)
\* the ids of pages 1..k, in return order
IdsOfPages(k) ==
    IF k = 0 THEN <<>>
    ELSE IdsOfPages(k - 1) \o PageIds(k, chSource[k].size)

RECURSIVE SizeOfPages(_)
SizeOfPages(k) == IF k = 0 THEN 0 ELSE SizeOfPages(k - 1) + chSource[k].size

C7_ChannelRowsExact ==
    (chPc = "done" /\ ~chFailed) =>
        /\ chRequests = LastPage
        /\ chCsv.state = "written"
        /\ chCsv.rows[1] = CsvHeader
        /\ Len(chCsv.rows) = 1 + SizeOfPages(LastPage)
        /\ [n \in 1..(Len(chCsv.rows) - 1) |-> chCsv.rows[n + 1][1]]
               = IdsOfPages(LastPage)

\* two pages were listed and the CSV holds the rows of both
C7_Witness ==
    /\ chPc = "done"
    /\ ~chFailed
    /\ LastPage = 2
    /\ chSource[1].size = MaxPageSize
    /\ chSource[2].size = 1
    /\ Len(chCsv.rows) = 1 + MaxPageSize + 1

(* C5: a metadata fetch failure never aborts a transcript save: whenever   *)
(* fetch_single_video obtains the transcript of a valid video id, a        *)
(* transcript file is written; when the metadata request fails or returns  *)
(* no item the sentinel record is used, and no error leaves                *)
(* fetch_video_metadata.                                                   *)

C5_MetadataFailureNeverAborts ==
    fsvTranscript = "ok" =>
        /\ ~fsvMetaRaised
        /\ fsvWritten # <<>>
        /\ fsvWritten \in DOMAIN trFiles
        /\ trFiles[fsvWritten].title = fsvRecord[1]
        /\ fsvMeta # "ok" =>
              /\ fsvRecord = SentinelMetadata
              /\ fsvWritten = <<UnknownChannel, UnknownTitle \o TxtSuffix>>

\* the metadata request failed and the transcript was saved all the same
C5_Witness ==
    /\ fsvTranscript = "ok"
    /\ fsvMeta = "error"
    /\ fsvWritten \in DOMAIN trFiles

(* C3: provider switching: after the operator selects provider A in        *)
(* select_ai_provider and confirms 'set as default', the store holds A's   *)
(* profile under "default", replacing any prior default, and a subsequent  *)
(* set_provider("default") configures the client with A's api key and base *)
(* URL.                                                                    *)

C3_ProviderSwitching ==
    selLast # "none" =>
        /\ "default" \in DOMAIN store
        /\ store["default"] = ProfileOf(selLast)
        /\ store[selLast] = ProfileOf(selLast)
        /\ (engLoaded = "default" /\ engFresh) =>
              /\ client = OpenAI(ProfileOf(selLast).api_key,
                                 ProfileOf(selLast).base_url)
              /\ provider = ProfileOf(selLast)

\* a prior default of another provider was replaced and then loaded
C3_Witness ==
    /\ selLast = "deepseek"
    /\ engLoaded = "default"
    /\ engFresh
    /\ client.base_url = ProfileOf("deepseek").base_url
    /\ menuChoice = "set_default"

(* C1: for every model response, if the response content is not parseable  *)
(* as JSON, or any of title, summary, content is absent or empty, the call *)
(* returns no result and creates or modifies no file under processed/.     *)

ResponseRejected(response) ==
    \/ response.kind \in {"no_content", "not_json", "not_object"}
    \/ /\ response.kind = "object"
       /\ \E f \in {response.title, response.summary, response.content} :
             f.state \in {"absent", "empty"}

C1_InvalidResponseWritesNothing ==
    (rfLast.called /\ ~rfLast.raised /\ ResponseRejected(rfLast.response)) =>
        /\ ~rfLast.returned
        /\ rfLast.wrote = {}

\* a response with a title and a summary but an empty content was rejected
C1_Witness ==
    /\ rfLast.called
    /\ rfLast.requests = 1
    /\ rfLast.response.kind = "object"
    /\ rfLast.response.title.state = "text"
    /\ rfLast.response.summary.state = "text"
    /\ rfLast.response.content.state = "empty"
    /\ ~rfLast.returned

(* C2: when the chat request fails with a transport or provider error, the *)
(* call issues no second request, writes no file, creates no directory and *)
(* returns no result.                                                      *)

C2_RequestErrorNoRetry ==
    (rfLast.called /\ ~rfLast.raised
         /\ rfLast.response.kind \in {"transport_error", "provider_error"}) =>
        /\ rfLast.requests = 1
        /\ rfLast.wrote = {}
        /\ rfLast.made = {}
        /\ ~rfLast.returned

\* a request failed after an earlier call had written its file
C2_Witness ==
    /\ rfLast.called
    /\ rfLast.response.kind = "transport_error"
    /\ rfLast.requests = 1
    /\ procFiles # <<>>

(* C4: batch processing isolates failures: when one item of a batch fails  *)
(* for any reason (unreadable or malformed input, no transcript key, AI    *)
(* request error, invalid response) the files written for earlier items    *)
(* remain in place, the failed item writes nothing, and every remaining    *)
(* item of the batch is still processed.                                   *)

C4_BatchIsolatesFailures ==
    batPc \in {"done", "aborted", "crashed"} =>
        /\ batWrote \subseteq DOMAIN procFiles
        /\ (rfLast.called /\ ~rfLast.returned) => rfLast.wrote = {}
        /\ \A i \in 1..Len(batItems) : batItems[i] => i \in batTried

(* C11: set_provider(name) returns the named profile and activates it when *)
(* the store contains the name; when the store does not contain it the     *)
(* call signals an error (after the "not found" message), configures no    *)
(* client and leaves the engine's active provider as it was.               *)

C11_SetProviderNotFound ==
    [][SetProvider =>
         IF setName' \in DOMAIN store
         THEN /\ ~setRaised'
              /\ setReturned' = store[setName']
              /\ provider' = store[setName']
              /\ client' = OpenAI(store[setName'].api_key,
                                  store[setName'].base_url)
         ELSE /\ setRaised'
              /\ setReturned' = NoProvider
              /\ provider' = provider
              /\ client' = client]_vars

\* a missing name was asked for while a provider was active
C11_Witness ==
    /\ running
    /\ setRaised
    /\ setName \notin DOMAIN store
    /\ provider # NoProvider
    /\ client = OpenAI(provider.api_key, provider.base_url)

(* C12: every reformat_transcript call performs exactly one network        *)
(* request and at most one file write: exactly one write, to               *)
(* processed/<sanitized channel_name>/<sanitized title>.json, when the     *)
(* response is valid, and none otherwise; over any sequence of calls the   *)
(* number of files written equals the number of calls that returned a      *)
(* result.                                                                 *)

\* a response that parses to an object with a non-empty title, summary and
\* content
ResponseAccepted(response) ==
    response.kind = "object" /\ ~ResponseRejected(response)

ExpectedOutput(input_json, response) ==
    <<PathJoin(ProcessedRoot, AiSanitizeFilename(input_json.channel)),
      AiSanitizeFilename(response.title.text) \o JsonSuffix>>

C12_OneRequestOneWrite ==
    /\ rfLast.called =>
          /\ rfLast.requests = 1
          /\ Cardinality(rfLast.wrote) <= 1
          /\ IF ResponseAccepted(rfLast.response)
             THEN rfLast.wrote = {ExpectedOutput(rfLast.input, rfLast.response)}
             ELSE rfLast.wrote = {}
    /\ rfTally.writes = rfTally.returned

(* C13: every reformat request is issued through the client configured by  *)
(* the most recent activation, with the model of the active profile, or    *)
(* the default model "o1" when the profile specifies none; the reformat    *)
(* call leaves the active profile and the client unchanged.                *)

\* the profile of the most recent set_provider that returned
ActivatedProfile == store[engLoaded]

C13_RequestUsesActiveProvider ==
    [][EngineReformat =>
         /\ rfLast'.requests > 0 =>
               /\ rfLast'.client = OpenAI(ActivatedProfile.api_key,
                                          ActivatedProfile.base_url)
               /\ rfLast'.model = IF ActivatedProfile.model = ""
                                  THEN "o1"
                                  ELSE ActivatedProfile.model
         /\ provider' = provider
         /\ client' = client]_vars

\* a request went out after deepseek had been activated in place of the
\* default
C13_Witness ==
    /\ rfLast.called
    /\ rfLast.requests = 1
    /\ engLoaded = "deepseek"
    /\ rfLast.model = ProfileOf("deepseek").model
    /\ rfLast.client.base_url = ProfileOf("deepseek").base_url
    /\ rfLast.returned

(* C14: the directory layout is channel-scoped for every channel name:     *)
(* each reformatted file is written inside a subdirectory of processed/    *)
(* named by the sanitized channel name, and each raw transcript inside a   *)
(* subdirectory of transcripts/ named by the sanitized channel name, never *)
(* directly in processed/ or transcripts/, also when the channel name      *)
(* sanitizes to the empty string.                                          *)

C14_ChannelScopedLayout ==
    /\ \A filepath \in rfLast.wrote :
          /\ filepath[1] # ProcessedRoot
          /\ filepath[1] = Append(ProcessedRoot,
                                  AiSanitizeFilename(rfLast.input.channel))
    /\ fsvWritten # <<>> =>
          /\ fsvWritten[1] # <<>>
          /\ fsvWritten[1] = sanitize_filename(fsvRecord[2], sanMax)

(* C15: select_ai_provider changes the credentials store only by replacing *)
(* the "default" entry: every named profile is the same before and after   *)
(* a run of the menu, and a run that ends with 'Go back', an invalid       *)
(* selection, a non-numeric input or a declined 'set as default' leaves    *)
(* the whole store unchanged.                                              *)

C15_OnlyDefaultChanges ==
    [][SelectAiProvider =>
         /\ DOMAIN store' \ {"default"} = DOMAIN store \ {"default"}
         /\ \A n \in DOMAIN store \ {"default"} : store'[n] = store[n]
         /\ menuChoice' \in {"go_back", "invalid", "not_a_number", "declined"}
               => store' = store]_vars

\* openai was made the default while deepseek stayed in the store
C15_Witness ==
    /\ menuChoice = "set_default"
    /\ selLast = "openai"
    /\ store["default"] = ProfileOf("openai")
    /\ "deepseek" \in DOMAIN store
    /\ store["deepseek"] = ProfileOf("deepseek")
    /\ store["openai"] = ProfileOf("openai")

(* C16: the channel CSV index is all-or-nothing: fetch_channel_videos      *)
(* writes the CSV only after every page has been listed; if the channel    *)
(* resolution fails or any page request fails, no CSV file is created or   *)
(* modified, and a resolution failure also creates no channel directory.   *)

C16_CsvAllOrNothing ==
    [][/\ chFailed' => (chCsv' = chCsv /\ chCsv'.state # "written")
       /\ (chPc = "resolve" /\ chFailed') => ~chDir'
       /\ chCsv' # chCsv =>
             /\ ~chFailed'
             /\ chRequests' = LastPage
             /\ Len(chVideos') = SizeOfPages(LastPage)]_vars

\* the second page request failed after the first page had given rows,
\* and the CSV of an earlier run is as it was
C16_Witness ==
    /\ chFailed
    /\ chPc = "done"
    /\ chRequests = 2
    /\ chVideos # <<>>
    /\ chDir
    /\ chCsv = [state |-> "old", rows |-> <<>>]

(* C17: in the single-file browser, after any sequence of selections the   *)
(* current directory is the starting directory or one of its descendants:  *)
(* entering a directory moves one level down, 'Back' or an empty listing   *)
(* moves one level up only when not at the starting directory, and at the  *)
(* starting directory they leave the browser for the reformat menu.        *)

C17_BrowserStaysWithinStart ==
    [][/\ brPc' = "browse" => IsWithin(Getcwd, brDir')
       /\ BrowseStep =>
             /\ brLast' = "enter" =>
                   /\ Dirname(brDir') = brDir
                   /\ brPc' = "browse"
             /\ brLast' \in {"back", "empty"} =>
                   IF brDir = Getcwd
                   THEN brPc' = "menu" /\ brDir' = brDir
                   ELSE brPc' = "browse" /\ brDir' = Dirname(brDir)
             /\ brLast' \notin {"enter", "back", "empty"} =>
                   brDir' = brDir]_vars

\* two levels down, then 'Back' brought the browser one level up, not out
C17_Witness ==
    /\ brPc = "browse"
    /\ brLast = "back"
    /\ brDir = Append(Getcwd, "a")
    /\ brDepth >= 2
    /\ "Back" \in brNames

=============================================================================
